---- MODULE Spec2Model ----
(***************************************************************************)
(* Single-qubit density-matrix simulator (project1a_backend).              *)
(*                                                                         *)
(* quantum_state.py : QuantumState (state, history, reset, apply_gate,     *)
(*                    apply_kraus)                                         *)
(* noise.py         : amplitude_damping, phase_damping, depolarizing       *)
(* main.py          : gate catalog, gate_unitary, kraus_operators,         *)
(*                    bloch_vector_from_rho, serialize_density_matrix,     *)
(*                    run_circuit                                          *)
(*                                                                         *)
(* Arithmetic.  numpy's complex128 is modelled by exact arithmetic in the  *)
(* field Q(sqrt 2, i): a number is                                         *)
(*        (re + r2*sqrt2 + im*i + i2*i*sqrt2) / den                        *)
(* kept in lowest terms.  Angles are counted in quarter turns (pi/2), so   *)
(* cos(theta/2) and sin(theta/2) are in the field; channel parameters are  *)
(* rationals, and Sqrt is the exact square root where it lies in the       *)
(* field.  Floating-point rounding is therefore not modelled: a property   *)
(* that holds here holds of the code up to rounding error.  The channel    *)
(* defaults (gamma = lambda = 0.1, p = 0.05) have roots outside the field, *)
(* so the inputs always give the channel parameter explicitly.             *)
(*                                                                         *)
(* Two specifications:                                                     *)
(*   Spec   - two run_circuit evaluations.  run_circuit has no await, so   *)
(*            under asyncio each runs to completion; the model lets them   *)
(*            interleave at every loop iteration, which includes those     *)
(*            runs and the ones of a threaded server.                      *)
(*   SpecQS - one QuantumState object driven through reset, apply_gate and *)
(*            apply_kraus with operators from the catalog; `log` records   *)
(*            the calls.                                                   *)
(***************************************************************************)
EXTENDS Integers, Sequences, FiniteSets, TLC

----------------------------------------------------------------------------
(* Exact numbers *)

Abs(n) == IF n < 0 THEN -n ELSE n

RECURSIVE Gcd(_, _)
Gcd(m, n) == IF n = 0 THEN Abs(m) ELSE Gcd(n, m % Abs(n))

\* the number (re + r2*sqrt2 + im*i + i2*i*sqrt2) / den in lowest terms
Num(re, r2, im, i2, den) ==
    IF den = 1
    THEN [re |-> re, r2 |-> r2, im |-> im, i2 |-> i2, den |-> 1]
    ELSE LET g == Gcd(Gcd(Gcd(Gcd(den, re), r2), im), i2)
         IN  [re |-> re \div g, r2 |-> r2 \div g, im |-> im \div g,
              i2 |-> i2 \div g, den |-> den \div g]

Rat(n, d) == Num(n, 0, 0, 0, d)

Zero == Rat(0, 1)

One == Rat(1, 1)

ImI == Num(0, 0, 1, 0, 1)

Add(x, y) ==
    IF x = Zero THEN y ELSE IF y = Zero THEN x ELSE
    Num(x.re * y.den + y.re * x.den, x.r2 * y.den + y.r2 * x.den,
        x.im * y.den + y.im * x.den, x.i2 * y.den + y.i2 * x.den,
        x.den * y.den)

Neg(x) == [x EXCEPT !.re = -x.re, !.r2 = -x.r2, !.im = -x.im, !.i2 = -x.i2]

Sub(x, y) == Add(x, Neg(y))

Mul(x, y) ==
    IF x = Zero \/ y = Zero THEN Zero
    ELSE IF x = One THEN y ELSE IF y = One THEN x ELSE
    Num(x.re * y.re + 2 * x.r2 * y.r2 - x.im * y.im - 2 * x.i2 * y.i2,
        x.re * y.r2 + x.r2 * y.re - x.im * y.i2 - x.i2 * y.im,
        x.re * y.im + x.im * y.re + 2 * x.r2 * y.i2 + 2 * x.i2 * y.r2,
        x.re * y.i2 + x.i2 * y.re + x.r2 * y.im + x.im * y.r2,
        x.den * y.den)

Conj(x) == [x EXCEPT !.im = -x.im, !.i2 = -x.i2]

Real(x) == Num(x.re, x.r2, 0, 0, x.den)

Imag(x) == Num(x.im, x.i2, 0, 0, x.den)

\* order on rationals (den > 0)
Less(x, y) == x.re * y.den < y.re * x.den

Max(x, y) == IF Less(x, y) THEN y ELSE x

Min(x, y) == IF Less(y, x) THEN y ELSE x

IsSquare(n) == \E k \in 0..n : k * k = n

ISqrt(n) == CHOOSE k \in 0..n : k * k = n

\* np.sqrt on a rational q >= 0 whose root lies in Q(sqrt 2); any other
\* argument has no value here
Sqrt(q) ==
    IF IsSquare(q.re) /\ IsSquare(q.den)
    THEN Rat(ISqrt(q.re), ISqrt(q.den))
    ELSE LET h == Rat(q.re, 2 * q.den)
         IN  Num(0, ISqrt(h.re), 0, 0, ISqrt(h.den))

----------------------------------------------------------------------------
(* 2x2 complex matrices, row major *)

Mat(a, b, c, d) == <<<<a, b>>, <<c, d>>>>

\* A @ B
MatMul(A, B) ==
    [i \in 1..2 |-> [j \in 1..2 |->
        Add(Mul(A[i][1], B[1][j]), Mul(A[i][2], B[2][j]))]]

MatAdd(A, B) == [i \in 1..2 |-> [j \in 1..2 |-> Add(A[i][j], B[i][j])]]

Scale(s, A) == [i \in 1..2 |-> [j \in 1..2 |-> Mul(s, A[i][j])]]

\* U.conj().T
Dagger(A) == [i \in 1..2 |-> [j \in 1..2 |-> Conj(A[j][i])]]

Trace(A) == Add(A[1][1], A[2][2])

ZeroMat == Mat(Zero, Zero, Zero, Zero)

Eye2 == Mat(One, Zero, Zero, One)

Ground == Mat(One, Zero, Zero, Zero)

----------------------------------------------------------------------------
(* Gate catalog (main.py).  theta is counted in quarter turns: theta = k   *)
(* stands for k*pi/2, so theta/2 is a multiple of pi/4.                    *)

HalfSqrt2 == Num(0, 1, 0, 0, 2)

\* numpy cos(theta/2)
CosHalf(theta) ==
    LET k == theta % 8
    IN  CASE k = 0 -> One
          [] k \in {1, 7} -> HalfSqrt2
          [] k \in {2, 6} -> Zero
          [] k \in {3, 5} -> Neg(HalfSqrt2)
          [] k = 4 -> Neg(One)

\* numpy sin(theta/2)
SinHalf(theta) == CosHalf(theta - 2)

X == Mat(Zero, One, One, Zero)

Y == Mat(Zero, Neg(ImI), ImI, Zero)

Z == Mat(One, Zero, Zero, Neg(One))

H == Scale(HalfSqrt2, Mat(One, One, One, Neg(One)))

Rx(theta) ==
    Mat(CosHalf(theta), Mul(Neg(ImI), SinHalf(theta)),
        Mul(Neg(ImI), SinHalf(theta)), CosHalf(theta))

Ry(theta) ==
    Mat(CosHalf(theta), Neg(SinHalf(theta)),
        SinHalf(theta), CosHalf(theta))

\* exp(-1j*theta/2) = cos(theta/2) - i sin(theta/2)
Rz(theta) ==
    Mat(Sub(CosHalf(theta), Mul(ImI, SinHalf(theta))), Zero,
        Zero, Add(CosHalf(theta), Mul(ImI, SinHalf(theta))))

----------------------------------------------------------------------------
(* Noise channels (noise.py): lists of Kraus operators *)

\* mutant: K0 scaled by 1 - gamma instead of its square root
amplitude_damping_nosqrt(gamma) ==
    LET K0 == Mat(One, Zero, Zero, Sub(One, gamma))
        K1 == Mat(Zero, Sqrt(gamma), Zero, Zero)
    IN  <<K0, K1>>

amplitude_damping(gamma) ==
    LET K0 == Mat(One, Zero, Zero, Sqrt(Sub(One, gamma)))
        K1 == Mat(Zero, Sqrt(gamma), Zero, Zero)
    IN  <<K0, K1>>

\* mutant: K1 scaled by sqrt(1 - lambda) instead of sqrt(lambda)
phase_damping_badscale(lmbda) ==
    LET K0 == Scale(Sqrt(Sub(One, lmbda)), Eye2)
        K1 == Scale(Sqrt(Sub(One, lmbda)), Mat(One, Zero, Zero, Zero))
        K2 == Scale(Sqrt(lmbda), Mat(Zero, Zero, Zero, One))
    IN  <<K0, K1, K2>>

phase_damping(lmbda) ==
    LET K0 == Scale(Sqrt(Sub(One, lmbda)), Eye2)
        K1 == Scale(Sqrt(lmbda), Mat(One, Zero, Zero, Zero))
        K2 == Scale(Sqrt(lmbda), Mat(Zero, Zero, Zero, One))
    IN  <<K0, K1, K2>>

depolarizing(p) ==
    LET K0 == Scale(Sqrt(Sub(One, Mul(Rat(3, 4), p))), Eye2)
        K1 == Scale(Sqrt(Mul(p, Rat(1, 4))), X)
        K2 == Scale(Sqrt(Mul(p, Rat(1, 4))), Y)
        K3 == Scale(Sqrt(Mul(p, Rat(1, 4))), Z)
    IN  <<K0, K1, K2, K3>>

----------------------------------------------------------------------------
(* Operator lookup (main.py).  A params dict is a function from keys to    *)
(* values; None and {} are both the empty function (`params or {}`).  A    *)
(* call either returns a value or raises.                                  *)

NoParams == <<>>

Ret(v) == [raised |-> FALSE, val |-> v]

Raise(prefix, name) ==
    [raised |-> TRUE, exc |-> "ValueError", msg |-> <<prefix, name>>]

\* dict.get(key, default)
Get(p, key, default) == IF key \in DOMAIN p THEN p[key] ELSE default

\* np.pi/2, in quarter turns
DefaultTheta == 1

DefaultGamma == Rat(1, 10)

DefaultLambda == Rat(1, 10)

DefaultP == Rat(1, 20)

\* GateName and NoiseName, the names the catalog knows
GateName == {"X", "Y", "Z", "H", "Rx", "Ry", "Rz"}

NoiseName == {"amplitude_damping", "phase_damping", "depolarizing"}

\* mutant: min and max exchanged
ClampSwapped(v) == Min(Zero, Max(One, v))

\* max(0.0, min(1.0, v))
Clamp(v) == Max(Zero, Min(One, v))

\* mutant: a name outside the catalog is taken for the identity gate
gate_unitary_lenient(name, params) ==
    LET p == params
    IN  CASE name = "X" -> Ret(X)
          [] name = "Y" -> Ret(Y)
          [] name = "Z" -> Ret(Z)
          [] name = "H" -> Ret(H)
          [] name = "Rx" -> Ret(Rx(Get(p, "theta", DefaultTheta)))
          [] name = "Ry" -> Ret(Ry(Get(p, "theta", DefaultTheta)))
          [] name = "Rz" -> Ret(Rz(Get(p, "theta", DefaultTheta)))
          [] OTHER -> Ret(Eye2)

gate_unitary(name, params) ==
    LET p == params
    IN  CASE name = "X" -> Ret(X)
          [] name = "Y" -> Ret(Y)
          [] name = "Z" -> Ret(Z)
          [] name = "H" -> Ret(H)
          [] name = "Rx" -> Ret(Rx(Get(p, "theta", DefaultTheta)))
          [] name = "Ry" -> Ret(Ry(Get(p, "theta", DefaultTheta)))
          [] name = "Rz" -> Ret(Rz(Get(p, "theta", DefaultTheta)))
          [] OTHER -> Raise("Unknown gate: ", name)

kraus_operators(name, params) ==
    LET p == params
    IN  CASE name = "amplitude_damping" ->
               Ret(amplitude_damping(Clamp(Get(p, "gamma", DefaultGamma))))
          [] name = "phase_damping" ->
               Ret(phase_damping(Clamp(Get(p, "lambda", DefaultLambda))))
          [] name = "depolarizing" ->
               Ret(depolarizing(Clamp(Get(p, "p", DefaultP))))
          [] OTHER -> Raise("Unknown noise channel: ", name)

----------------------------------------------------------------------------
(* Observation (main.py) *)

bloch_vector_from_rho(rho) ==
    [x |-> Real(Trace(MatMul(rho, X))),
     y |-> Real(Trace(MatMul(rho, Y))),
     z |-> Real(Trace(MatMul(rho, Z)))]

serialize_density_matrix(rho) ==
    [i \in 1..2 |-> [j \in 1..2 |-> <<Real(rho[i][j]), Imag(rho[i][j])>>]]

Observe(rho) ==
    [bloch_vector |-> bloch_vector_from_rho(rho),
     density_matrix |-> serialize_density_matrix(rho)]

----------------------------------------------------------------------------
(* QuantumState (quantum_state.py).  numpy arrays are objects: `heap` is   *)
(* the sequence of arrays allocated so far, an array's address its index.  *)
(* `state` is the address of the live array, `history` a list of           *)
(* addresses.                                                              *)

\* __init__(initial_state): <<>> stands for None, <<M>> for a given array
QuantumState(initial_state) ==
    [heap |-> IF initial_state = <<>> THEN <<Ground>> ELSE initial_state,
     state |-> 1,
     history |-> <<>>]

\* reset(): self.__init__() on the same object; a new ground array is
\* bound to self.state and a new empty list to self.history
reset(q) ==
    [heap |-> Append(q.heap, Ground),
     state |-> Len(q.heap) + 1,
     history |-> <<>>]

\* mutant: no copy is made, the array itself is recorded
CopyAlias(heap, a) == heap

\* self.state.copy(): a new array with the same contents
Copy(heap, a) == Append(heap, heap[a])

\* mutant: the new state is not recorded
apply_gate_norecord(q, U) ==
    LET new  == MatMul(MatMul(U, q.heap[q.state]), Dagger(U))
        h1   == Append(q.heap, new)
    IN  [heap |-> h1, state |-> Len(h1), history |-> q.history]

apply_gate(q, U) ==
    LET new  == MatMul(MatMul(U, q.heap[q.state]), Dagger(U))
        h1   == Append(q.heap, new)
        st   == Len(h1)
        h2   == Copy(h1, st)
    IN  [heap |-> h2, state |-> st, history |-> Append(q.history, Len(h2))]

\* the loop of apply_kraus: new_state (at address a) += K @ state @ K^dagger
RECURSIVE KrausLoop(_, _, _, _, _)
KrausLoop(heap, a, rho, Ks, i) ==
    IF i > Len(Ks) THEN heap
    ELSE KrausLoop(
           [heap EXCEPT ![a] =
               MatAdd(@, MatMul(MatMul(Ks[i], rho), Dagger(Ks[i])))],
           a, rho, Ks, i + 1)

apply_kraus(q, kraus_ops) ==
    LET h0   == Append(q.heap, ZeroMat)
        new  == Len(h0)
        h1   == KrausLoop(h0, new, q.heap[q.state], kraus_ops, 1)
        h2   == Copy(h1, new)
    IN  [heap |-> h2, state |-> new, history |-> Append(q.history, Len(h2))]

\* the value of the live state, and the values of the history entries
Rho(q) == q.heap[q.state]

Hist(q) == [i \in 1..Len(q.history) |-> q.heap[q.history[i]]]

----------------------------------------------------------------------------
(* Bounds and inputs *)

\* longest circuit submitted to run_circuit
MaxSteps == 2

\* number of calls made on the QuantumState object of SpecQS
MaxCalls == 2

\* the run_circuit evaluations in flight
Requests == {"r1", "r2"}

GateStep(name, params) == [type |-> "gate", name |-> name, params |-> params]

NoiseStep(name, params) == [type |-> "noise", name |-> name, params |-> params]

\* Steps as pydantic admits them (type is "gate" or "noise", name any
\* string).  "I" and "bit_flip" are names outside the catalog.
StepInputs ==
    { GateStep("H", NoParams),
      GateStep("I", NoParams),
      NoiseStep("amplitude_damping", [gamma |-> Rat(1, 2)]),
      NoiseStep("bit_flip", NoParams) }

Circuits == UNION { [1..n -> StepInputs] : n \in 0..MaxSteps }

\* Steps resolved and applied to the QuantumState object of SpecQS
GateInputs ==
    { GateStep(n, NoParams) : n \in {"X", "Y", "Z", "H", "Rx", "Ry", "Rz"} }
    \cup { GateStep(n, [theta |-> t]) : n \in {"Rx", "Ry", "Rz"}, t \in {0, 2, 3} }

ParamInputs == { Rat(-3, 10), Zero, Rat(1, 2), One, Rat(3, 2) }

NoiseInputs ==
    { NoiseStep("amplitude_damping", [gamma |-> g]) : g \in ParamInputs }
    \cup { NoiseStep("phase_damping", [lambda |-> l]) : l \in ParamInputs }
    \cup { NoiseStep("depolarizing", [p |-> v]) : v \in ParamInputs \ {Rat(1, 2)} }

\* Steps of SpecQS whose name is outside the catalog
UnknownInputs == { GateStep("I", NoParams), NoiseStep("bit_flip", NoParams) }

QsInputs == GateInputs \cup NoiseInputs \cup UnknownInputs

\* initial_state arguments of the constructor: None, |1><1|, maximally mixed
InitialStates ==
    { <<>>,
      <<Mat(Zero, Zero, Zero, One)>>,
      <<Mat(Rat(1, 2), Zero, Zero, Rat(1, 2))>> }

----------------------------------------------------------------------------
(* State *)

VARIABLES
    qs,      \* SpecQS: the QuantumState object under test
    log,     \* SpecQS: the calls made on qs since construction, in order
    objs,    \* Spec: the QuantumState objects constructed so far
    pc,      \* Spec: per request, "idle" | "loop" | "done" | "failed"
    circuit, \* Spec: per request, circuit.steps
    qsref,   \* Spec: per request, the object its local `qs` names
    idx,     \* Spec: per request, number of steps the for loop has completed
    out,     \* Spec: per request, out_steps
    resp,    \* Spec: per request, <<>> or <<the returned response>>
    err      \* Spec: per request, <<>> or <<the exception that escaped>>

vars == <<qs, log, objs, pc, circuit, qsref, idx, out, resp, err>>

qsVars == <<qs, log>>

runVars == <<objs, pc, circuit, qsref, idx, out, resp, err>>

----------------------------------------------------------------------------
(* run_circuit (main.py), one evaluation per request *)

\* mutant: one process-wide object serves every request
NewQsShared(os) == 1

\* qs = QuantumState(): the object the constructor call returns is new
NewQs(os) == Len(os) + 1

\* mutant: the steps are taken last to first
StepAtReversed(c, i) == c[Len(c) - i]

\* line 159: for step in circuit.steps; i steps have been consumed
StepAt(c, i) == c[i + 1]

\* lines 160-167: resolve the step to a transformation of the state
Resolve(step) ==
    CASE step.type = "gate" -> gate_unitary(step.name, step.params)
      [] step.type = "noise" -> kraus_operators(step.name, step.params)
      [] OTHER -> Raise("Unsupported step: ", step.type)

ApplyTo(q, step, r) ==
    IF step.type = "gate" THEN apply_gate(q, r.val) ELSE apply_kraus(q, r.val)

RunInit ==
    /\ objs = <<>>
    /\ pc = [r \in Requests |-> "idle"]
    /\ circuit = [r \in Requests |-> <<>>]
    /\ qsref = [r \in Requests |-> 0]
    /\ idx = [r \in Requests |-> 0]
    /\ out = [r \in Requests |-> <<>>]
    /\ resp = [r \in Requests |-> <<>>]
    /\ err = [r \in Requests |-> <<>>]

\* lines 156-157: the request arrives; qs = QuantumState(); out_steps = []
Start(r, c) ==
    /\ pc[r] = "idle"
    /\ circuit' = [circuit EXCEPT ![r] = c]
    /\ objs' = Append(objs, QuantumState(<<>>))
    /\ qsref' = [qsref EXCEPT ![r] = NewQs(objs)]
    /\ out' = [out EXCEPT ![r] = <<>>]
    /\ pc' = [pc EXCEPT ![r] = "loop"]
    /\ UNCHANGED <<idx, resp, err, qsVars>>

\* lines 159-174: one iteration of the loop whose step resolves
LoopStep(r) ==
    /\ pc[r] = "loop"
    /\ idx[r] < Len(circuit[r])
    /\ LET step == StepAt(circuit[r], idx[r])
           res  == Resolve(step)
       IN  /\ ~res.raised
           /\ objs' = [objs EXCEPT ![qsref[r]] = ApplyTo(@, step, res)]
    \* lines 170-174: rho = qs.state; out_steps.append({...})
    /\ out' = [out EXCEPT ![r] = Append(@, Observe(Rho(objs'[qsref[r]])))]
    /\ idx' = [idx EXCEPT ![r] = @ + 1]
    /\ UNCHANGED <<pc, circuit, qsref, resp, err, qsVars>>

\* mutant: a step that does not resolve is skipped
LoopSkip(r) ==
    /\ pc[r] = "loop"
    /\ idx[r] < Len(circuit[r])
    /\ Resolve(StepAt(circuit[r], idx[r])).raised
    /\ idx' = [idx EXCEPT ![r] = @ + 1]
    /\ UNCHANGED <<objs, pc, circuit, qsref, out, resp, err, qsVars>>

\* lines 161/164/167: the lookup raises and the exception leaves run_circuit
LoopRaise(r) ==
    /\ pc[r] = "loop"
    /\ idx[r] < Len(circuit[r])
    /\ LET res == Resolve(StepAt(circuit[r], idx[r]))
       IN  /\ res.raised
           /\ err' = [err EXCEPT ![r] = <<res>>]
    /\ pc' = [pc EXCEPT ![r] = "failed"]
    /\ UNCHANGED <<objs, circuit, qsref, idx, out, resp, qsVars>>

\* line 176: return {"steps": out_steps}
Return(r) ==
    /\ pc[r] = "loop"
    /\ idx[r] = Len(circuit[r])
    /\ resp' = [resp EXCEPT ![r] = <<[steps |-> out[r]]>>]
    /\ pc' = [pc EXCEPT ![r] = "done"]
    /\ UNCHANGED <<objs, circuit, qsref, idx, out, err, qsVars>>

----------------------------------------------------------------------------
(* A QuantumState object driven through its public methods *)

Call(method, name, params, arg) ==
    [method |-> method, name |-> name, params |-> params, arg |-> arg]

QsInit ==
    /\ \E s \in InitialStates : qs = QuantumState(s)
    /\ log = <<>>

\* qs.apply_gate(gate_unitary(name, params))
DoGate(g) ==
    /\ Len(log) < MaxCalls
    /\ g.type = "gate"
    /\ LET res == Resolve(g)
       IN  /\ ~res.raised
           /\ qs' = apply_gate(qs, res.val)
           /\ log' = Append(log, Call("apply_gate", g.name, g.params, res.val))
    /\ UNCHANGED runVars

\* qs.apply_kraus(kraus_operators(name, params))
DoNoise(n) ==
    /\ Len(log) < MaxCalls
    /\ n.type = "noise"
    /\ LET res == Resolve(n)
       IN  /\ ~res.raised
           /\ qs' = apply_kraus(qs, res.val)
           /\ log' = Append(log, Call("apply_kraus", n.name, n.params, res.val))
    /\ UNCHANGED runVars

\* the lookup raises before any method of qs is called
DoLookupRaise(s) ==
    /\ Len(log) < MaxCalls
    /\ LET res == Resolve(s)
       IN  /\ res.raised
           /\ log' = Append(log, Call("raise", s.name, s.params, res))
    /\ UNCHANGED <<qs, runVars>>

\* qs.apply_gate(np.eye(2)): the identity matrix passed by the caller
DoApplyIdentity ==
    /\ Len(log) < MaxCalls
    /\ qs' = apply_gate(qs, Eye2)
    /\ log' = Append(log, Call("apply_gate", "np.eye", NoParams, Eye2))
    /\ UNCHANGED runVars

\* qs.reset()
DoReset ==
    /\ Len(log) < MaxCalls
    /\ qs' = reset(qs)
    /\ log' = Append(log, Call("reset", "", NoParams, <<>>))
    /\ UNCHANGED runVars

----------------------------------------------------------------------------
(* Specifications *)

Init == RunInit /\ qs = QuantumState(<<>>) /\ log = <<>>

Next ==
    \/ \E r \in Requests, c \in Circuits : Start(r, c)
    \/ \E r \in Requests : LoopStep(r)
    \/ \E r \in Requests : LoopRaise(r)
    \/ \E r \in Requests : Return(r)

Spec == Init /\ [][Next]_vars

InitQS == QsInit /\ RunInit

NextQS ==
    \/ \E g \in QsInputs : DoGate(g)
    \/ \E n \in QsInputs : DoNoise(n)
    \/ \E s \in QsInputs : DoLookupRaise(s)
    \/ DoApplyIdentity
    \/ DoReset

SpecQS == InitQS /\ [][NextQS]_vars

----------------------------------------------------------------------------
(* Reference semantics used by the properties: the channel a step denotes  *)
(* and the state after the first k steps of a circuit.                     *)

Last(seq) == seq[Len(seq)]

Conjugate(A, rho) == MatMul(MatMul(A, rho), Dagger(A))

RECURSIVE SumConjugates(_, _, _)
SumConjugates(Ks, rho, n) ==
    IF n = 0 THEN ZeroMat
    ELSE MatAdd(SumConjugates(Ks, rho, n - 1), Conjugate(Ks[n], rho))

Known(step) ==
    \/ step.type = "gate" /\ step.name \in GateName
    \/ step.type = "noise" /\ step.name \in NoiseName

StepMap(step, rho) ==
    IF step.type = "gate"
    THEN Conjugate(gate_unitary(step.name, step.params).val, rho)
    ELSE LET Ks == kraus_operators(step.name, step.params).val
         IN  SumConjugates(Ks, rho, Len(Ks))

\* <<rho_1, ..., rho_n>>: rho_0 is the ground state and rho_k is step k of
\* circuit c applied to rho_(k-1)
RECURSIVE FoldFrom(_, _, _, _)
FoldFrom(c, n, acc, rho) ==
    IF Len(acc) = n THEN acc
    ELSE CHOOSE fs \in { FoldFrom(c, n, Append(acc, nxt), nxt) :
                             nxt \in {StepMap(c[Len(acc) + 1], rho)} } : TRUE

FoldStates(c, n) == FoldFrom(c, n, <<>>, Ground)

RunAlone(c) ==
    CHOOSE res \in { [steps |-> [k \in 1..Len(c) |-> Observe(fs[k])]] :
                        fs \in {FoldStates(c, Len(c))} } : TRUE

Hermitian(A) == \A i, j \in 1..2 : A[i][j] = Conj(A[j][i])

IsApply(call) == call.method \in {"apply_gate", "apply_kraus"}

NumApplies(l) == Cardinality({i \in 1..Len(l) : IsApply(l[i])})

NoReset(l) == \A i \in 1..Len(l) : l[i].method # "reset"

\* the step from log to log' is one call of the given methods
Called(methods) ==
    /\ Len(log') = Len(log) + 1
    /\ Last(log').method \in methods

ParamKey(name) ==
    CASE name = "amplitude_damping" -> "gamma"
      [] name = "phase_damping" -> "lambda"
      [] name = "depolarizing" -> "p"

RawParam(call) == call.params[ParamKey(call.name)]

\* the Kraus set noise.py builds for a channel at parameter x
KrausAt(name, x) ==
    CASE name = "amplitude_damping" -> amplitude_damping(x)
      [] name = "phase_damping" -> phase_damping(x)
      [] name = "depolarizing" -> depolarizing(x)

Started(r) == pc[r] # "idle"

----------------------------------------------------------------------------
(* Properties *)

\* C1: run_circuit returns one observation record per input step, in input
\* order; the k-th record observes the state obtained by applying steps
\* 1..k in order to the ground state.
C1_InOrderFold ==
    \A r \in Requests :
        Started(r) =>
            /\ Len(out[r]) = idx[r]
            /\ \A fs \in {FoldStates(circuit[r], idx[r])} :
                   \A k \in 1..idx[r] : out[r][k] = Observe(fs[k])
            /\ pc[r] = "done" =>
                   /\ idx[r] = Len(circuit[r])
                   /\ resp[r] = <<[steps |-> out[r]]>>
            /\ (\A k \in 1..Len(circuit[r]) : Known(circuit[r][k])) =>
                   pc[r] # "failed"

C1_Witness ==
    \E r \in Requests :
        /\ pc[r] = "done"
        /\ Len(circuit[r]) = 2
        /\ circuit[r][1].type = "gate" /\ circuit[r][2].type = "noise"
        /\ Len(resp[r][1].steps) = 2
        /\ resp[r][1].steps[1] # resp[r][1].steps[2]

\* C2 (as claimed): reset() sets the state to the ground matrix and keeps
\* every history entry recorded before it, in the same order.
C2_ResetKeepsHistory ==
    [][Called({"reset"}) =>
          /\ Rho(qs') = Ground
          /\ Hist(qs') = Hist(qs)]_vars

\* C3: every apply_gate / apply_kraus call appends exactly one entry, equal
\* to the new current state, at the end of the history; after n such calls
\* on a freshly constructed object the history has length n and its last
\* entry is the current state.
C3_HistoryGrowsByOne ==
    /\ [](NoReset(log) =>
            /\ Len(qs.history) = NumApplies(log)
            /\ NumApplies(log) > 0 => Last(Hist(qs)) = Rho(qs))
    /\ [][Called({"apply_gate", "apply_kraus"}) =>
            Hist(qs') = Append(Hist(qs), Rho(qs'))]_vars

C3_Witness ==
    /\ Len(log) = 2
    /\ log[1].method = "apply_kraus" /\ log[2].method = "apply_gate"
    /\ Len(qs.history) = 2
    /\ Hist(qs)[1] # Hist(qs)[2]

\* C4: history entries are independent snapshots: no entry is the same
\* array as the live state (or as another entry), and a later apply_gate /
\* apply_kraus leaves every recorded entry as it was.
C4_Snapshots ==
    /\ [](\A i \in 1..Len(qs.history) :
            /\ qs.history[i] # qs.state
            /\ \A j \in 1..Len(qs.history) :
                   i # j => qs.history[i] # qs.history[j])
    /\ [][Called({"apply_gate", "apply_kraus"}) =>
            \A i \in 1..Len(qs.history) :
                /\ qs'.history[i] = qs.history[i]
                /\ Hist(qs')[i] = Hist(qs)[i]]_vars

C4_Witness ==
    /\ Len(qs.history) = 2
    /\ Last(log).method = "apply_kraus"
    /\ Hist(qs)[1] # Rho(qs)
    /\ Hist(qs)[2] = Rho(qs)
    /\ qs.history[2] # qs.state

\* C5: a step naming a gate or channel outside the catalog fails with an
\* error naming the step and the kind expected; evaluation stops there: the
\* failing step and the later ones are not applied, no step is skipped, and
\* no response is returned.
C5_UnknownAborts ==
    \A r \in Requests :
        Started(r) =>
            /\ \A k \in 1..idx[r] : Known(circuit[r][k])
            /\ Len(objs[qsref[r]].history) = idx[r]
            /\ Len(out[r]) = idx[r]
            /\ pc[r] = "failed" =>
                   LET step == circuit[r][idx[r] + 1]
                   IN  /\ ~Known(step)
                       /\ resp[r] = <<>>
                       /\ Len(err[r]) = 1
                       /\ err[r][1].msg[2] = step.name
                       /\ err[r][1].msg[1] =
                             IF step.type = "gate" THEN "Unknown gate: "
                             ELSE "Unknown noise channel: "
            /\ resp[r] # <<>> =>
                   /\ Len(resp[r][1].steps) = Len(circuit[r])
                   /\ \A k \in 1..Len(circuit[r]) : Known(circuit[r][k])
            /\ (\E k \in 1..Len(circuit[r]) : ~Known(circuit[r][k])) =>
                   pc[r] # "done"

C5_Witness ==
    \E r \in Requests :
        /\ pc[r] = "failed"
        /\ Len(circuit[r]) = 2
        /\ idx[r] = 1
        /\ circuit[r][2].type = "noise"
        /\ Len(objs[qsref[r]].history) = 1

\* C6: every evaluation works on its own QuantumState, constructed in the
\* ground state; whatever other evaluations have run or are running, its
\* object holds the states of its own steps and its response is the one it
\* returns when run alone.
C6_Isolation ==
    \A r \in Requests :
        Started(r) =>
            /\ \A r2 \in Requests \ {r} :
                   Started(r2) => qsref[r2] # qsref[r]
            /\ \A fs \in {FoldStates(circuit[r], idx[r])} :
                   /\ Hist(objs[qsref[r]]) = fs
                   /\ Rho(objs[qsref[r]]) =
                          IF idx[r] = 0 THEN Ground ELSE fs[idx[r]]
            /\ pc[r] = "done" => resp[r] = <<RunAlone(circuit[r])>>

\* r2 started first and is still in its loop while r1 ran to completion
C6_Witness ==
    /\ pc["r1"] = "done" /\ Len(circuit["r1"]) = 2
    /\ pc["r2"] = "loop" /\ idx["r2"] = 1 /\ Len(circuit["r2"]) = 2
    /\ qsref["r2"] < qsref["r1"]
    /\ circuit["r1"] # circuit["r2"]

\* C7: after any sequence of catalog gates and catalog channels the current
\* state (and every recorded state) is Hermitian with trace 1.
C7_DensityInvariant ==
    /\ Hermitian(Rho(qs)) /\ Trace(Rho(qs)) = One
    /\ \A i \in 1..Len(qs.history) :
           Hermitian(Hist(qs)[i]) /\ Trace(Hist(qs)[i]) = One

C7_Witness ==
    /\ Len(log) = 2
    /\ log[1].method = "apply_gate" /\ log[2].method = "apply_kraus"
    /\ Imag(Rho(qs)[1][2]) # Zero
    /\ Rho(qs)[1][1] # Rho(qs)[2][2]

\* C8: a channel parameter outside [0,1] is clamped, never rejected: above
\* 1 the lookup yields the Kraus set of parameter 1, below 0 that of
\* parameter 0.
C8_Clamped ==
    \A i \in 1..Len(log) :
        /\ log[i].method = "raise" => log[i].name \notin NoiseName
        /\ log[i].method = "apply_kraus" =>
               LET v == RawParam(log[i])
               IN  /\ Less(One, v) => log[i].arg = KrausAt(log[i].name, One)
                   /\ Less(v, Zero) => log[i].arg = KrausAt(log[i].name, Zero)

C8_Witness ==
    /\ Len(log) = 2
    /\ log[1].name = "amplitude_damping" /\ RawParam(log[1]) = Rat(3, 2)
    /\ log[2].name = "amplitude_damping" /\ RawParam(log[2]) = Rat(-3, 10)
    /\ log[1].method = "apply_kraus" /\ log[2].method = "apply_kraus"

\* C9 (as claimed): a gate step naming the identity resolves to
\* [[1,0],[0,1]] instead of failing as an unknown gate.
C9_IdentityInCatalog ==
    \A i \in 1..Len(log) :
        log[i].name = "I" =>
            log[i].method = "apply_gate" /\ log[i].arg = Eye2

\* C9 (amended): the catalog has no identity gate: a gate step naming it
\* fails as an unknown gate; apply_gate with the identity matrix leaves the
\* state unchanged, so reset followed by it leaves the ground state.
C9_NoIdentityGate ==
    /\ [](\A i \in 1..Len(log) :
            log[i].name = "I" =>
                /\ log[i].method = "raise"
                /\ log[i].arg.msg = <<"Unknown gate: ", "I">>)
    /\ [](\A i \in 2..Len(log) :
            (log[i - 1].method = "reset" /\ log[i].name = "np.eye"
                /\ i = Len(log)) => Rho(qs) = Ground)
    /\ [][Called({"apply_gate"}) /\ Last(log').name = "np.eye" =>
            Rho(qs') = Rho(qs)]_vars

\* the lookup of "I" has raised; the identity matrix was then applied to
\* the object in the ground state, as reset() leaves it
C9_Witness ==
    /\ Len(log) = 2
    /\ log[1].name = "I" /\ log[1].method = "raise"
    /\ log[2].name = "np.eye" /\ log[2].method = "apply_gate"
    /\ Rho(qs) = Ground
    /\ Len(qs.history) = 1

\* C10: a channel resolved at parameter 0 leaves the current state
\* unchanged, and the call still appends one history entry.
C10_ZeroParamIdentity ==
    [][Called({"apply_kraus"}) /\ RawParam(Last(log')) = Zero =>
          /\ Rho(qs') = Rho(qs)
          /\ Len(qs'.history) = Len(qs.history) + 1
          /\ Last(Hist(qs')) = Rho(qs)]_vars

C10_Witness ==
    /\ Len(log) = 2
    /\ log[1].name = "Rx"
    /\ log[2].method = "apply_kraus" /\ log[2].name = "phase_damping"
    /\ RawParam(log[2]) = Zero
    /\ Rho(qs)[1][2] # Zero
    /\ Len(qs.history) = 2

====
